---- MODULE Spec2Model ----
(***************************************************************************)
(* Model of the trivia API backend, flaskr/__init__.py: the pagination     *)
(* helper, the six request handlers and the five error handlers, over a    *)
(* store of question rows.                                                 *)
(*                                                                         *)
(* Text values (question, answer, category, search term, the page query    *)
(* argument) are sequences of one-character strings, so that strip(),      *)
(* ILIKE matching, int() and str() are computed and not assumed.           *)
(***************************************************************************)
EXTENDS Integers, Sequences, FiniteSets, TLC

VARIABLES
  store,      \* the questions table: sequence of rows, in insertion order
  nextId,     \* next value of the questions id sequence
  req,        \* the request handled last
  resp,       \* the response to it: [status, body]
  previous,   \* quiz client: ids of the questions it has been given
  quizCat,    \* quiz client: category id of its session
  ended       \* quiz client: has received the response with no question

vars == <<store, nextId, req, resp, previous, quizCat, ended>>

----------------------------------------------------------------------------
(* Bounds *)

MaxId == 2          \* main specification: ids handed out are 1..MaxId
MaxTotal == 21      \* pagination specification: seeded store sizes 0..MaxTotal
MaxPage == 3        \* largest page number requested
MaxBack == 2        \* smallest page number requested is -MaxBack
SeedSize == 10      \* listing specification: rows seeded before the first request
MaxListAdds == 1    \* listing specification: rows that may be added to the seed
MaxQuizStore == 4   \* quiz session specification: store sizes 0..MaxQuizStore

----------------------------------------------------------------------------
(* Program constant *)

QUESTIONS_PER_PAGE == 10

----------------------------------------------------------------------------
(* Text and number helpers *)

Min(a, b) == IF a < b THEN a ELSE b
Max(a, b) == IF a > b THEN a ELSE b

Range(s) == {s[i] : i \in 1..Len(s)}

RECURSIVE SetToSeq(_)
SetToSeq(S) ==
  IF S = {} THEN <<>>
  ELSE LET m == CHOOSE x \in S : \A y \in S : x <= y
       IN <<m>> \o SetToSeq(S \ {m})

DigitChar == <<"0", "1", "2", "3", "4", "5", "6", "7", "8", "9">>
Digits == Range(DigitChar)
DigitVal(c) == CHOOSE d \in 0..9 : DigitChar[d + 1] = c

\* str(n) of Python for an integer n
RECURSIVE StrNat(_)
StrNat(n) == IF n < 10 THEN <<DigitChar[n + 1]>>
             ELSE StrNat(n \div 10) \o <<DigitChar[(n % 10) + 1]>>
Str(n) == IF n < 0 THEN <<"-">> \o StrNat(0 - n) ELSE StrNat(n)

\* int(s) of Python on the text of a query argument: an optional sign and
\* at least one digit; anything else raises ValueError
RECURSIVE NatVal(_)
NatVal(s) == IF s = <<>> THEN 0
             ELSE 10 * NatVal(SubSeq(s, 1, Len(s) - 1)) + DigitVal(s[Len(s)])
IsNatLiteral(s) == Len(s) > 0 /\ \A i \in 1..Len(s) : s[i] \in Digits
IsIntLiteral(s) ==
  \/ IsNatLiteral(s)
  \/ Len(s) > 1 /\ s[1] \in {"-", "+"} /\ IsNatLiteral(Tail(s))
IntVal(s) == IF s[1] = "-" THEN 0 - NatVal(Tail(s))
             ELSE IF s[1] = "+" THEN NatVal(Tail(s))
             ELSE NatVal(s)

Whitespace == {" "}

\* str.strip()
RECURSIVE LStrip(_)
LStrip(s) == IF s # <<>> /\ Head(s) \in Whitespace THEN LStrip(Tail(s)) ELSE s
RECURSIVE RStrip(_)
RStrip(s) == IF s # <<>> /\ s[Len(s)] \in Whitespace
             THEN RStrip(SubSeq(s, 1, Len(s) - 1)) ELSE s
Strip(s) == RStrip(LStrip(s))

LowerChar(c) == CASE c = "A" -> "a" [] c = "B" -> "b" [] c = "C" -> "c"
                  [] OTHER -> c
Lower(s) == [i \in 1..Len(s) |-> LowerChar(s[i])]

\* SQL LIKE: % matches any run of characters, _ any one character
RECURSIVE LikeMatch(_, _)
LikeMatch(s, p) ==
  IF p = <<>> THEN s = <<>>
  ELSE IF Head(p) = "%"
       THEN LikeMatch(s, Tail(p)) \/ (s # <<>> /\ LikeMatch(Tail(s), p))
  ELSE IF Head(p) = "_"
       THEN s # <<>> /\ LikeMatch(Tail(s), Tail(p))
  ELSE s # <<>> /\ Head(s) = Head(p) /\ LikeMatch(Tail(s), Tail(p))

\* column.ilike(pattern): LIKE on the lower-cased operands
ILike(text, pattern) == LikeMatch(Lower(text), Lower(pattern))

\* Python slicing s[start:end] of a list, positions counted from 0,
\* negative positions counted from the end, both clamped to the list
PySlice(s, start, end) ==
  LET n  == Len(s)
      lo == IF start < 0 THEN Max(n + start, 0) ELSE Min(start, n)
      hi == IF end < 0 THEN Max(n + end, 0) ELSE Min(end, n)
  IN IF lo < hi THEN SubSeq(s, lo + 1, hi) ELSE <<>>

----------------------------------------------------------------------------
(* The store (models.py is not part of the sources; rows and their         *)
(* operations follow the data model of the specification)                  *)

Row(id, question, answer, category, difficulty) ==
  [id |-> id, question |-> question, answer |-> answer,
   category |-> category, difficulty |-> difficulty]

\* Question.format(): the row as a plain field mapping
Format(q) ==
  [id |-> q.id, question |-> q.question, answer |-> q.answer,
   category |-> q.category, difficulty |-> q.difficulty]

FormatAll(selection) == [i \in 1..Len(selection) |-> Format(selection[i])]

Ids(st) == {st[i].id : i \in 1..Len(st)}

\* Question.query.get(id): the row or none
HasRow(st, id) == id \in Ids(st)

\* question.delete()
DeleteRow(st, id) == LET Keep(q) == q.id # id IN SelectSeq(st, Keep)

\* question.insert() with the generated id
InsertRow(st, id, question, answer, category, difficulty) ==
  Append(st, Row(id, question, answer, category, difficulty))

\* the categories table, which no endpoint changes
Categories == <<[id |-> 1, type |-> "Science"], [id |-> 2, type |-> "Art"]>>

EmptyDict == [k \in {} |-> 0]

\* the null of a JSON body, drawn as a number that is no category id
None == 0 - 1

----------------------------------------------------------------------------
(* Error handlers: each ignores the error it is given, and so the          *)
(* description passed to abort()                                           *)

not_found(error) ==
  [status |-> 404,
   body |-> [success |-> FALSE, error |-> 404, message |-> "resource not found"]]

unprocessable(error) ==
  [status |-> 422,
   body |-> [success |-> FALSE, error |-> 422, message |-> "unprocessable"]]

bed_request(error) ==
  [status |-> 400,
   body |-> [success |-> FALSE, error |-> 400, message |-> "bed request"]]

not_allowed(error) ==
  [status |-> 405,
   body |-> [success |-> FALSE, error |-> 405, message |-> "method not allowed"]]

server_error(error) ==
  [status |-> 500,
   body |-> [success |-> FALSE, error |-> 500, message |-> "Internal Server Error"]]

\* abort(code, description): the registered handler of the code answers
Abort(code, description) ==
  LET error == [code |-> code, description |-> description]
  IN CASE code = 400 -> bed_request(error)
       [] code = 404 -> not_found(error)
       [] code = 405 -> not_allowed(error)
       [] code = 422 -> unprocessable(error)
       [] OTHER      -> server_error(error)

\* an exception no handler of the view catches: the framework answers 500
Uncaught(exception) == Abort(500, exception)

Ok(body) == [status |-> 200, body |-> body]

----------------------------------------------------------------------------
(* Requests *)

NoArgs == EmptyDict
PageArgs(text) == [k \in {"page"} |-> text]

Request(op, args, path_id, has_json, content) ==
  [op |-> op, args |-> args, path_id |-> path_id,
   has_json |-> has_json, content |-> content]

\* request.args.get('page', 1, type=int)
PageOf(args) ==
  IF "page" \in DOMAIN args /\ IsIntLiteral(args["page"])
  THEN IntVal(args["page"]) ELSE 1

----------------------------------------------------------------------------
(* Read-only handlers, as functions of the request and the store *)

\* variants with a slip: the page taken as counted from 0, and a page one
\* item short
paginate_questions_from_zero(args, selection) ==
  LET page  == PageOf(args)
      start == page * QUESTIONS_PER_PAGE
      end   == start + QUESTIONS_PER_PAGE
      questions == FormatAll(selection)
  IN PySlice(questions, start, end)

paginate_questions_short(args, selection) ==
  LET page  == PageOf(args)
      start == (page - 1) * QUESTIONS_PER_PAGE
      end   == start + QUESTIONS_PER_PAGE - 1
      questions == FormatAll(selection)
  IN PySlice(questions, start, end)

paginate_questions(args, selection) ==
  LET page  == PageOf(args)
      start == (page - 1) * QUESTIONS_PER_PAGE
      end   == start + QUESTIONS_PER_PAGE
      questions == FormatAll(selection)
  IN PySlice(questions, start, end)

get_categories(fails) ==
  IF fails THEN Abort(500, "")
  ELSE Ok([success |-> TRUE, categories |-> Categories])

get_questions(args, st) ==
  LET selection == st
      current_questions == paginate_questions(args, selection)
  IN IF Len(current_questions) = 0 THEN Abort(404, "")
     ELSE Ok([success |-> TRUE,
              questions |-> current_questions,
              total_questions |-> Len(selection),
              categories |-> Categories,
              current_category |-> None])

\* Question.query.filter_by(category=str(category_id)).all()
FilterByCategory(st, category_id) ==
  LET InCategory(q) == q.category = Str(category_id)
  IN SelectSeq(st, InCategory)

get_questions_by_category(category_id, args, st) ==
  LET questions == FilterByCategory(st, category_id)
      current_questions == paginate_questions(args, questions)
  IN IF Len(current_questions) = 0 THEN Abort(404, "")
     ELSE Ok([success |-> TRUE,
              questions |-> current_questions,
              totalQuestions |-> Len(current_questions),
              currentCategory |-> category_id])

\* Question.query.filter(Question.question.ilike(f'%{search_term}%')).all()
SearchRows(st, search_term) ==
  LET Matches(q) == ILike(q.question, <<"%">> \o search_term \o <<"%">>)
  IN SelectSeq(st, Matches)

search_questions(content, st) ==
  LET search_term == content["searchTerm"]
      questions == SearchRows(st, search_term)
      questions_list == FormatAll(questions)
      totalQuestions == Len(st)
  IN Ok([success |-> TRUE,
         questions |-> questions_list,
         totalQuestions |-> totalQuestions,
         currentCategory |-> None])

\* variants with a slip: the category filter left out, and the exclusion
\* of previous questions left out
QuizRowsAnyCategory(st, quiz_category, previousQuestions) ==
  LET Unseen(q) == q.id \notin Range(previousQuestions)
  IN SelectSeq(st, Unseen)

QuizRowsSeenToo(st, quiz_category, previousQuestions) ==
  LET InCategory(q) == q.category = Str(quiz_category)
  IN IF quiz_category = 0 THEN st ELSE SelectSeq(st, InCategory)

\* the two queries of add_quiz: ids not in previous_questions and, for a
\* nonzero category id, category equal to str(id)
QuizRows(st, quiz_category, previousQuestions) ==
  LET Unseen(q) == q.id \notin Range(previousQuestions)
      UnseenInCategory(q) ==
        q.category = Str(quiz_category) /\ q.id \notin Range(previousQuestions)
  IN IF quiz_category = 0 THEN SelectSeq(st, Unseen)
     ELSE SelectSeq(st, UnseenInCategory)

\* the responses add_quiz may give: random.choice picks any of the rows
add_quiz(has_json, content, st) ==
  IF ~has_json THEN {Uncaught("TypeError")}
  ELSE
    LET previousQuestions ==
          IF "previous_questions" \in DOMAIN content
          THEN content["previous_questions"] ELSE <<>>
    IN IF \/ "quiz_category" \notin DOMAIN content
          \/ "id" \notin DOMAIN content["quiz_category"]
       THEN {Abort(400, "")}
       ELSE
         LET quiz_category == content["quiz_category"]["id"]
             questions == QuizRows(st, quiz_category, previousQuestions)
         IN IF Len(questions) = 0 THEN {Ok([success |-> TRUE])}
            ELSE {Ok([success |-> TRUE, question |-> Format(questions[i])]) :
                    i \in 1..Len(questions)}

----------------------------------------------------------------------------
(* Handlers that may write to the store.  fails is the outcome of the      *)
(* store operation inside the try block.                                   *)

\* variant with a slip: the lookup result is not tested
delete_question_unchecked(question_id, st, fails) ==
  IF fails
  THEN [resp |-> Abort(422, ""), store |-> st]
  ELSE [resp |-> Ok([success |-> TRUE, deleted |-> question_id]),
        store |-> DeleteRow(st, question_id)]

delete_question(question_id, st, fails) ==
  IF ~HasRow(st, question_id)
  THEN [resp |-> Abort(404, ""), store |-> st]
  ELSE IF fails
  THEN [resp |-> Abort(422, ""), store |-> st]
  ELSE [resp |-> Ok([success |-> TRUE, deleted |-> question_id]),
        store |-> DeleteRow(st, question_id)]

\* variant with a slip: the texts are compared without strip()
SubmissionCheckUnstripped(content) ==
  IF "question" \notin DOMAIN content THEN "KeyError"
  ELSE IF content["question"] = <<>> THEN "empty"
  ELSE IF "answer" \notin DOMAIN content THEN "KeyError"
  ELSE IF content["answer"] = <<>> THEN "empty"
  ELSE "ok"

\* the condition of the submission check, evaluated left to right
SubmissionCheck(content) ==
  IF "question" \notin DOMAIN content THEN "KeyError"
  ELSE IF Strip(content["question"]) = <<>> THEN "empty"
  ELSE IF "answer" \notin DOMAIN content THEN "KeyError"
  ELSE IF Strip(content["answer"]) = <<>> THEN "empty"
  ELSE "ok"

add_question(has_json, content, st, id, fails) ==
  LET Reply(r) == [resp |-> r, store |-> st, nextId |-> id]
  IN IF ~has_json THEN Reply(Uncaught("TypeError"))
     ELSE IF "searchTerm" \in DOMAIN content
     THEN Reply(search_questions(content, st))
     ELSE IF SubmissionCheck(content) = "KeyError"
     THEN Reply(Uncaught("KeyError"))
     ELSE IF SubmissionCheck(content) = "empty"
     THEN Reply(Abort(400, "empty question or answer"))
     ELSE IF \/ "category" \notin DOMAIN content
             \/ "difficulty" \notin DOMAIN content
             \/ fails
     THEN Reply(Abort(422, ""))
     ELSE [resp |-> Ok([success |-> TRUE, added |-> id]),
           store |-> InsertRow(st, id, content["question"], content["answer"],
                               content["category"], content["difficulty"]),
           nextId |-> id + 1]

----------------------------------------------------------------------------
(* Inputs *)

QuestionTexts == {<<>>, <<" ">>, <<"a", "B">>, <<" ", "c">>}
AnswerTexts == {<<" ", " ">>, <<"x">>}
CategoryTexts == {<<"1">>, <<"2">>}
Difficulties == {2}
SearchTerms == {<<>>, <<"b">>, <<"A", "b">>, <<"z">>, <<"_">>}
PageTexts == {Str(p) : p \in (0 - MaxBack)..MaxPage} \cup {<<>>, <<"x">>}
CategoryIds == {0, 1, 2, 3}

PageArgSets == {NoArgs} \cup {PageArgs(t) : t \in PageTexts}

\* a field left out of a body is drawn as one of these markers
NoText == <<"(absent)">>
NoNumber == 0 - 1
NoList == <<0 - 1>>
NoObject == 0 - 2
NoIdKey == 0 - 1

CreateKeys(question, answer, category, difficulty) ==
  (IF question = NoText THEN {} ELSE {"question"})
    \cup (IF answer = NoText THEN {} ELSE {"answer"})
    \cup (IF category = NoText THEN {} ELSE {"category"})
    \cup (IF difficulty = NoNumber THEN {} ELSE {"difficulty"})

CreateContent(question, answer, category, difficulty) ==
  [k \in CreateKeys(question, answer, category, difficulty) |->
     CASE k = "question" -> question
       [] k = "answer" -> answer
       [] k = "category" -> category
       [] OTHER -> difficulty]

SearchContent(search_term) == [k \in {"searchTerm"} |-> search_term]

QuizCategory(id) ==
  IF id = NoIdKey THEN [k \in {"type"} |-> 0]
  ELSE [k \in {"id", "type"} |-> IF k = "id" THEN id ELSE 0]

QuizContent(prev, id) ==
  [k \in (IF prev = NoList THEN {} ELSE {"previous_questions"})
          \cup (IF id = NoObject THEN {} ELSE {"quiz_category"}) |->
     IF k = "previous_questions" THEN prev ELSE QuizCategory(id)]

----------------------------------------------------------------------------
(* Actions: one request handled from start to end *)

NoRequest == Request("none", NoArgs, 0, FALSE, EmptyDict)
NoResponse == [status |-> 0, body |-> EmptyDict]

NoClient ==
  /\ previous = <<>>
  /\ quizCat = 0
  /\ ended = FALSE

ClientIdle == UNCHANGED <<previous, quizCat, ended>>

GetCategories ==
  /\ \E fails \in BOOLEAN :
       /\ req' = Request("get_categories", NoArgs, 0, FALSE, EmptyDict)
       /\ resp' = get_categories(fails)
       /\ UNCHANGED <<store, nextId>>
       /\ ClientIdle

GetQuestions ==
  /\ \E args \in PageArgSets :
       /\ req' = Request("get_questions", args, 0, FALSE, EmptyDict)
       /\ resp' = get_questions(args, store)
       /\ UNCHANGED <<store, nextId>>
       /\ ClientIdle

GetQuestionsByCategory ==
  /\ \E category_id \in CategoryIds, args \in PageArgSets :
       /\ req' = Request("get_questions_by_category", args, category_id,
                         FALSE, EmptyDict)
       /\ resp' = get_questions_by_category(category_id, args, store)
       /\ UNCHANGED <<store, nextId>>
       /\ ClientIdle

DeleteQuestionIn(ids) ==
  \E question_id \in ids, fails \in BOOLEAN :
    LET r == delete_question(question_id, store, fails)
    IN /\ req' = Request("delete_question", NoArgs, question_id,
                         FALSE, EmptyDict)
       /\ resp' = r.resp
       /\ store' = r.store
       /\ UNCHANGED nextId
       /\ ClientIdle

\* the outcomes of the insert, for a request that reaches it
InsertOutcomes(has_json, content) ==
  IF /\ has_json
     /\ "searchTerm" \notin DOMAIN content
     /\ {"question", "answer", "category", "difficulty"} \subseteq DOMAIN content
  THEN BOOLEAN ELSE {FALSE}

PostQuestion(has_json, content, cap) ==
  \E fails \in InsertOutcomes(has_json, content) :
    LET r == add_question(has_json, content, store, nextId, fails)
    IN /\ r.nextId <= cap + 1
       /\ req' = Request("add_question", NoArgs, 0, has_json, content)
       /\ resp' = r.resp
       /\ store' = r.store
       /\ nextId' = r.nextId
       /\ ClientIdle

CreateQuestionUpTo(cap) ==
  \/ PostQuestion(FALSE, EmptyDict, cap)
  \/ \E question \in QuestionTexts \cup {NoText},
        answer \in AnswerTexts \cup {NoText},
        category \in CategoryTexts \cup {NoText},
        difficulty \in Difficulties \cup {NoNumber} :
       PostQuestion(TRUE,
         CreateContent(question, answer, category, difficulty), cap)

SearchQuestions ==
  /\ \E search_term \in SearchTerms :
       PostQuestion(TRUE, SearchContent(search_term), MaxId)

QuizRequest(has_json, content) ==
  /\ req' = Request("add_quiz", NoArgs, 0, has_json, content)
  /\ resp' \in add_quiz(has_json, content, store)
  /\ UNCHANGED <<store, nextId>>

AddQuiz ==
  /\ \/ QuizRequest(FALSE, EmptyDict)
     \/ \E prev \in {SetToSeq(S) : S \in SUBSET (1..MaxId)} \cup {NoList},
           id \in CategoryIds \cup {NoObject, NoIdKey} :
          QuizRequest(TRUE, QuizContent(prev, id))
  /\ ClientIdle

DeleteQuestion ==
  /\ DeleteQuestionIn(0..(MaxId + 1))

CreateQuestion ==
  /\ CreateQuestionUpTo(MaxId)

Init ==
  /\ store = <<>>
  /\ nextId = 1
  /\ req = NoRequest
  /\ resp = NoResponse
  /\ NoClient

Next ==
  \/ GetCategories
  \/ GetQuestions
  \/ GetQuestionsByCategory
  \/ DeleteQuestion
  \/ CreateQuestion
  \/ SearchQuestions
  \/ AddQuiz

Spec == Init /\ [][Next]_vars

----------------------------------------------------------------------------
(* Seeded stores: rows 1..n as a database dump would load them *)

SeedText(i) == <<"q">> \o Str(i)
SeedRow(i) == Row(i, SeedText(i), <<"x">>, Str((i % 2) + 1), 2)
Seed(n) == [i \in 1..n |-> SeedRow(i)]

----------------------------------------------------------------------------
(* Pagination: the two listing endpoints over stores of 0..MaxTotal rows *)

InitPage ==
  /\ \E total \in 0..MaxTotal :
       /\ store = Seed(total)
       /\ nextId = total + 1
  /\ req = NoRequest
  /\ resp = NoResponse
  /\ NoClient

NextPage ==
  \/ GetQuestions
  \/ GetQuestionsByCategory

SpecPage == InitPage /\ [][NextPage]_vars

----------------------------------------------------------------------------
(* Listing after writes: create, delete and list over a store seeded with  *)
(* SeedSize rows, so that created rows fall on a second page               *)

ListDeleteIds == {1, SeedSize, SeedSize + 1, SeedSize + MaxListAdds + 1}

ListCreate ==
  /\ CreateQuestionUpTo(SeedSize + MaxListAdds)

ListDelete ==
  /\ DeleteQuestionIn(ListDeleteIds)

InitList ==
  /\ store = Seed(SeedSize)
  /\ nextId = SeedSize + 1
  /\ req = NoRequest
  /\ resp = NoResponse
  /\ NoClient

NextList ==
  \/ ListCreate
  \/ ListDelete
  \/ GetQuestions

SpecList == InitList /\ [][NextList]_vars

----------------------------------------------------------------------------
(* A quiz session: the client posts the ids it has been given, appends the *)
(* id of each question it receives and stops at the response without one.  *)
(* Nothing else writes to the store.                                       *)

QuizRound ==
  /\ ~ended
  /\ QuizRequest(TRUE, QuizContent(previous, quizCat))
  /\ IF "question" \in DOMAIN resp'.body
     THEN /\ previous' = Append(previous, resp'.body["question"].id)
          /\ ended' = FALSE
     ELSE /\ previous' = previous
          /\ ended' = TRUE
  /\ UNCHANGED quizCat

InitQuiz ==
  /\ \E n \in 0..MaxQuizStore, cats \in [1..MaxQuizStore -> CategoryTexts] :
       /\ store = [i \in 1..n |-> Row(i, SeedText(i), <<"x">>, cats[i], 2)]
       /\ nextId = n + 1
  /\ quizCat \in {0, 1, 2}
  /\ previous = <<>>
  /\ ended = FALSE
  /\ req = NoRequest
  /\ resp = NoResponse

NextQuiz == QuizRound

SpecQuiz == InitQuiz /\ [][NextQuiz]_vars /\ WF_vars(QuizRound)

----------------------------------------------------------------------------
(* Vocabulary of the properties *)

IsBlank(text) == \A i \in 1..Len(text) : text[i] \in Whitespace

\* text contains term, letter case ignored
ContainsIgnoreCase(text, term) ==
  \E i \in 1..(Len(text) + 1) :
    /\ i + Len(term) - 1 <= Len(text)
    /\ \A j \in 1..Len(term) : LowerChar(text[i + j - 1]) = LowerChar(term[j])

IsCreate(r) ==
  r.op = "add_question" /\ r.has_json /\ "searchTerm" \notin DOMAIN r.content
IsSearch(r) ==
  r.op = "add_question" /\ r.has_json /\ "searchTerm" \in DOMAIN r.content
Has(r, k) == k \in DOMAIN r.content

\* a create request with both texts supplied, one of them blank, or with a
\* blank question text
BlankCreate(r) ==
  /\ IsCreate(r)
  /\ Has(r, "question")
  /\ \/ IsBlank(r.content["question"])
     \/ Has(r, "answer") /\ IsBlank(r.content["answer"])

\* ids the sequence has handed out that are no longer stored
DeletedIds(st, next) == (1..(next - 1)) \ Ids(st)

\* ids of the questions a response lists
ListedIds(r) ==
  IF r.status # 200 THEN {}
  ELSE IF "questions" \in DOMAIN r.body
  THEN {r.body["questions"][i].id : i \in 1..Len(r.body["questions"])}
  ELSE IF "question" \in DOMAIN r.body THEN {r.body["question"].id}
  ELSE {}

----------------------------------------------------------------------------
(* The sequence a listing endpoint paginates, and the page it is asked for *)

IsListing(r) == r.op \in {"get_questions", "get_questions_by_category"}

Selection(r, st) ==
  IF r.op = "get_questions" THEN st
  ELSE LET Same(q) == q.category = Str(r.path_id) IN SelectSeq(st, Same)

\* the items at positions [(page-1)*10, page*10) of the sequence
PageItems(page, seq) ==
  LET total == Len(seq)
      left  == total - (page - 1) * 10
      n     == IF left > 0 THEN Min(10, left) ELSE 0
  IN [i \in 1..n |-> Format(seq[(page - 1) * 10 + i])]

(* C1: for a page number >= 1 the listing endpoints return exactly the     *)
(* items at positions [(page-1)*10, page*10) of the sequence, in order:    *)
(* min(10, total - (page-1)*10) of them when that is positive (never more  *)
(* than 10) and none otherwise, which the endpoints answer with 404.       *)

C1_PageSlice ==
  (IsListing(req) /\ PageOf(req.args) >= 1) =>
    LET page == PageOf(req.args)
        seq == Selection(req, store)
        expected == PageItems(page, seq)
    IN /\ paginate_questions(req.args, seq) = expected
       /\ Len(expected) <= 10
       /\ IF expected = <<>> THEN resp.status = 404
          ELSE /\ resp.status = 200
               /\ resp.body["questions"] = expected

C1_Witness ==
  /\ req.op = "get_questions"
  /\ PageOf(req.args) = 2
  /\ Len(store) > 10
  /\ Len(store) < 20
  /\ resp.status = 200
  /\ Len(resp.body["questions"]) = Len(store) - 10

(* C2: for a page number out of range (0, negative, or with                *)
(* (page-1)*10 >= total) the slice is empty and both listing endpoints     *)
(* answer 404.                                                             *)

OutOfRange(page, total) == page <= 0 \/ (page - 1) * 10 >= total

C2_OutOfRangeIs404 ==
  (IsListing(req) /\ OutOfRange(PageOf(req.args), Len(Selection(req, store)))) =>
    /\ paginate_questions(req.args, Selection(req, store)) = <<>>
    /\ resp.status = 404

----------------------------------------------------------------------------
(* C3: a create request (no searchTerm) whose question or answer text is   *)
(* empty or only whitespace is answered 400 and inserts no row: the store  *)
(* and the id sequence are as before, whatever category and difficulty     *)
(* are, present or not.                                                    *)

C4_MessageIsDescription ==
  (BlankCreate(req) /\ resp.status = 400) =>
     resp.body["message"] = "empty question or answer"

(* C5: a request that lacks a required field is answered 400: a create     *)
(* request without question, answer, category or difficulty or without a   *)
(* JSON body, and a quiz request without quiz_category or without its id.  *)

LacksRequiredField(r) ==
  \/ /\ r.op = "add_question"
     /\ \/ ~r.has_json
        \/ /\ IsCreate(r)
           /\ \E k \in {"question", "answer", "category", "difficulty"} :
                ~Has(r, k)
  \/ /\ r.op = "add_quiz"
     /\ r.has_json
     /\ \/ ~Has(r, "quiz_category")
        \/ "id" \notin DOMAIN r.content["quiz_category"]

C5_MissingFieldIs400 == LacksRequiredField(req) => resp.status = 400

(* C6, as stated: a DELETE for an id not in the store yields 404 and       *)
(* leaves the store unchanged; for an id in the store it yields            *)
(* {success: true, deleted: id} and removes exactly that question; no      *)
(* later listing (questions page, search, category page, quiz) contains a  *)
(* deleted id.                                                             *)

IsDelete(r) == r.op = "delete_question"

RemovedExactly(id, before, after) ==
  /\ Len(after) = Len(before) - 1
  /\ id \notin Ids(after)
  /\ after = LET Other(q) == q.id # id IN SelectSeq(before, Other)

DeleteAbsent ==
  (IsDelete(req') /\ req'.path_id \notin Ids(store)) =>
     /\ resp'.status = 404
     /\ store' = store

DeleteStored ==
  (IsDelete(req') /\ req'.path_id \in Ids(store) /\ resp'.status = 200) =>
     /\ resp'.body = [success |-> TRUE, deleted |-> req'.path_id]
     /\ RemovedExactly(req'.path_id, store, store')

NeverListedAgain ==
  /\ DeletedIds(store, nextId) \subseteq DeletedIds(store', nextId')
  /\ ListedIds(resp') \cap DeletedIds(store', nextId') = {}

C6_DeleteAlwaysSucceeds ==
  [][/\ DeleteAbsent
     /\ DeleteStored
     /\ (IsDelete(req') /\ req'.path_id \in Ids(store)) => resp'.status = 200
     /\ NeverListedAgain]_vars

(* C6, amended: as above, except that for an id in the store the response  *)
(* is 422 when the delete operation of the store fails, and is             *)
(* {success: true, deleted: id} with exactly that question removed         *)
(* otherwise.                                                              *)

C6_Delete ==
  [][/\ DeleteAbsent
     /\ DeleteStored
     /\ (IsDelete(req') /\ req'.path_id \in Ids(store)) =>
           resp'.status \in {200, 422}
     /\ NeverListedAgain]_vars

C6_Witness ==
  /\ Len(store) > 0
  /\ DeletedIds(store, nextId) # {}
  /\ req.op = "get_questions"
  /\ resp.status = 200

(* C8: a request with searchTerm is never answered 404: it succeeds with   *)
(* exactly the stored questions whose text contains the term, letter case  *)
(* ignored, and totalQuestions is the number of all stored questions.      *)

C8_SearchIsSubstring ==
  IsSearch(req) =>
    /\ resp.status = 200
    /\ resp.body["success"] = TRUE
    /\ resp.body["questions"] =
         LET Hit(q) == ContainsIgnoreCase(q.question, req.content["searchTerm"])
         IN FormatAll(SelectSeq(store, Hit))
    /\ resp.body["totalQuestions"] = Len(store)

(* C9: for a quiz request with quiz_category.id given, the response has a  *)
(* question key exactly when some stored question is eligible (id not in   *)
(* previous_questions and, for a nonzero category id, category equal to    *)
(* the text of the id), and a returned question is an eligible one.        *)

WellFormedQuiz(r) ==
  /\ r.op = "add_quiz"
  /\ r.has_json
  /\ Has(r, "quiz_category")
  /\ "id" \in DOMAIN r.content["quiz_category"]

PreviousOf(r) ==
  IF Has(r, "previous_questions") THEN Range(r.content["previous_questions"])
  ELSE {}

Eligible(st, prevIds, categoryId) ==
  {q \in Range(st) :
     /\ q.id \notin prevIds
     /\ categoryId # 0 => q.category = Str(categoryId)}

C9_QuizQuestionIsEligible ==
  WellFormedQuiz(req) =>
    LET eligible == Eligible(store, PreviousOf(req),
                             req.content["quiz_category"]["id"])
    IN /\ resp.status = 200
       /\ resp.body["success"] = TRUE
       /\ ("question" \in DOMAIN resp.body) <=> (eligible # {})
       /\ ("question" \in DOMAIN resp.body) =>
             \E q \in eligible : resp.body["question"] = Format(q)
       /\ (Ids(store) \subseteq PreviousOf(req)) =>
             resp = Ok([success |-> TRUE])

C9_Witness ==
  /\ WellFormedQuiz(req)
  /\ req.content["quiz_category"]["id"] # 0
  /\ PreviousOf(req) \cap Ids(store) # {}
  /\ "question" \in DOMAIN resp.body
  /\ Len(store) > 1

(* C7: a successful create returns an id that no stored question had, the  *)
(* store then holds exactly one more question, and as long as it is not    *)
(* deleted the question is listed by GET /api/questions on some page with  *)
(* the id, question, answer, category and difficulty of the request, where *)
(* total_questions is one more than the number stored before.              *)

Created(r, rs) ==
  IsCreate(r) /\ rs.status = 200 /\ "added" \in DOMAIN rs.body

ListedOnSomePage(q, st, total) ==
  \E page \in 1..MaxPage :
    LET listing == get_questions(PageArgs(Str(page)), st)
    IN /\ listing.status = 200
       /\ listing.body["total_questions"] = total
       /\ \E i \in 1..Len(listing.body["questions"]) :
            listing.body["questions"][i] = q

\* a successful create: fresh id, one more row, the row listed as requested
CreateStep ==
  Created(req', resp') =>
    /\ resp'.body = [success |-> TRUE, added |-> resp'.body["added"]]
    /\ resp'.body["added"] \notin Ids(store)
    /\ Len(store') = Len(store) + 1
    /\ ListedOnSomePage(
          [id |-> resp'.body["added"],
           question |-> req'.content["question"],
           answer |-> req'.content["answer"],
           category |-> req'.content["category"],
           difficulty |-> req'.content["difficulty"]],
          store', Len(store) + 1)

\* a stored row stays as it is unless this step deletes it
KeptUntilDeleted ==
  \A i \in 1..Len(store) :
    \/ /\ IsDelete(req')
       /\ req'.path_id = store[i].id
       /\ resp'.status = 200
    \/ store[i] \in Range(store')

\* every stored row is on some page of the listing
AllListed ==
  \A i \in 1..Len(store) :
    ListedOnSomePage(Format(store[i]), store, Len(store))

C7_CreatedIsListed ==
  /\ [][CreateStep /\ KeptUntilDeleted]_vars
  /\ []AllListed

C7_Witness ==
  /\ req.op = "get_questions"
  /\ PageOf(req.args) = 2
  /\ resp.status = 200
  /\ \E i \in 1..Len(resp.body["questions"]) :
       resp.body["questions"][i].id > SeedSize
  /\ DeletedIds(store, nextId) = {}

(* C10: in a quiz session over a store nothing else writes to, no question *)
(* id is given twice, and the session reaches the response without a       *)
(* question after exactly as many questions as were eligible for its       *)
(* category at the start.                                                  *)

NoRepeats(s) == \A i, j \in 1..Len(s) : s[i] = s[j] => i = j

C10_QuizSession ==
  /\ [](NoRepeats(previous))
  /\ [](ended => Len(previous) = Cardinality(Eligible(store, {}, quizCat)))
  /\ <>ended

C10_Witness ==
  /\ ended
  /\ quizCat # 0
  /\ Len(previous) >= 2
  /\ Len(store) > Len(previous)

====
